---- MODULE Spec2Model ----
(***************************************************************************)
(* Family_Tree: FamilyManager (Family_Member.py) and ID_System (lib.py).   *)
(*                                                                         *)
(* Python objects live in `heap` (a sequence, the index is the object's    *)
(* address), because the manager's nodes refer to each other by reference  *)
(* and an entry of connection_dict may be overwritten while other nodes    *)
(* still hold the old object.  connection_dict is an insertion-ordered     *)
(* dict: a sequence of [k, v] entries.  Python's None is 0 for integers    *)
(* and addresses (ids and addresses start at 1) and the empty tuple <<>>   *)
(* for optional records.                                                   *)
(***************************************************************************)
EXTENDS Integers, Sequences, FiniteSets, TLC

VARIABLES heap, connection_dict, root, last_person_id, last_couple_id,
          disk, alive, lastCall, issued, loadedIds, exStep, capacity

vars == <<heap, connection_dict, root, last_person_id, last_couple_id,
          disk, alive, lastCall, issued, loadedIds, exStep, capacity>>

\* ---------------------------------------------------------------- bounds
\* objects one manager may allocate, in each specification; `capacity` holds
\* the bound of the specification being explored and never changes
MaxObjs == 4
MaxAllocObjs == 3
MaxTraverseObjs == 4
MaxFileObjs == 3
MaxImportObjs == 2

\* ------------------------------------------------------------- constants
None == 0
LINKED_PERSON == 0
VERTEX == 1

\* exception classes raised by the code
AttributeError == "AttributeError"
KeyError == "KeyError"
AssertionError == "AssertionError"
ValueError == "ValueError"
NoError == ""

\* methods each class defines (attribute lookup on an instance)
ID_SystemMethods == {"getPersonID", "getCoupleID", "isCouple"}
LinkedPersonMethods == {"getID", "addParentVertex", "addChildVertex", "getParent",
                        "getVertices", "getName", "getRelations"}
VertexMethods == {"addChild", "getID", "getParents", "getChildren", "getName",
                  "getRelations"}

\* ----------------------------------------------------------- value types
EventDate(year, month, day) ==
  [cls |-> "EventDate", year |-> year, month |-> month, day |-> day]

PersonInfo(person_id, first_name, last_name, birth, death) ==
  [person_id |-> person_id, first_name |-> first_name, last_name |-> last_name,
   birth |-> birth, death |-> death]

\* dataclasses.asdict on an optional EventDate: a plain dict, or null
DateAsDict(d) ==
  IF d = <<>> THEN <<>>
  ELSE <<[year |-> d[1].year, month |-> d[1].month, day |-> d[1].day]>>

asdict(info) ==
  [person_id |-> info.person_id, first_name |-> info.first_name,
   last_name |-> info.last_name,
   birth |-> DateAsDict(info.birth), death |-> DateAsDict(info.death)]

DateFromDict(j) ==
  IF j = <<>> THEN <<>> ELSE <<EventDate(j[1].year, j[1].month, j[1].day)>>

infoFromDict(info_dict) ==
  PersonInfo(info_dict.person_id, info_dict.first_name, info_dict.last_name,
             DateFromDict(info_dict.birth), DateFromDict(info_dict.death))

\* ----------------------------------------------------------------- nodes
LinkedPerson(person_id, person_info) ==
  [type |-> LINKED_PERSON, id |-> person_id, info |-> <<person_info>>,
   parent_vertex |-> None, child_vertices |-> {}, children |-> {}, parents |-> {}]

\* a Python int is true unless it is 0
Truthy(n) == n # 0

\* `assert len(members) == 1 or 2`
VertexAssert(members) == (Cardinality(members) = 1) \/ Truthy(2)

Vertex(vertex_id, members) ==
  [type |-> VERTEX, id |-> vertex_id, info |-> <<>>,
   parent_vertex |-> None, child_vertices |-> {}, children |-> {}, parents |-> members]

Methods(obj) == IF obj.type = VERTEX THEN VertexMethods ELSE LinkedPersonMethods

\* ------------------------------------------------------------- ID_System
\* getPersonID stepping by 1: the two id spaces no longer split by parity
getPersonIDStepOne(last) == IF last = None THEN 1 ELSE last + 1

getPersonID(last) == IF last = None THEN 1 ELSE last + 2

getCoupleID(last) == IF last = None THEN 2 ELSE last + 2

\* ------------------------------------------------- insertion-ordered dict
Keys(d) == {d[i].k : i \in DOMAIN d}

Lookup(d, key) == d[CHOOSE i \in DOMAIN d : d[i].k = key].v

Put(d, key, val) ==
  IF key \in Keys(d)
  THEN [i \in DOMAIN d |-> IF d[i].k = key THEN [k |-> key, v |-> val] ELSE d[i]]
  ELSE Append(d, [k |-> key, v |-> val])

\* ------------------------------------------------ manager state and calls
\* a manager: the FamilyManager's fields and the objects it allocated
NewManager ==
  [heap |-> <<>>, connection_dict |-> <<>>, root |-> None,
   last_person_id |-> None, last_couple_id |-> None]

Manager ==
  [heap |-> heap, connection_dict |-> connection_dict, root |-> root,
   last_person_id |-> last_person_id, last_couple_id |-> last_couple_id]

\* result of a call: the manager after it, the returned address, the exception
Result(st, ret, err) == [st |-> st, ret |-> ret, err |-> err]

getMember(st, id_number) ==
  IF id_number \in Keys(st.connection_dict)
  THEN Result(st, Lookup(st.connection_dict, id_number), NoError)
  ELSE Result(st, None, KeyError)

addFamilyMemberOp(st, person_info) ==
  LET a == Len(st.heap) + 1
      person_id == person_info.person_id
  IN Result([st EXCEPT !.heap = Append(@, LinkedPerson(person_id, person_info)),
                       !.root = IF @ = None THEN a ELSE @,
                       !.connection_dict = Put(@, person_id, a)],
            a, NoError)

createFamilyMemberOp(st, first_name, last_name, birth, death) ==
  LET person_id == getPersonID(st.last_person_id)
      st1 == [st EXCEPT !.last_person_id = person_id]
  IN addFamilyMemberOp(st1, PersonInfo(person_id, first_name, last_name, birth, death))

addVertexOp(st, members, vertex_id) ==
  IF vertex_id = None /\ "getVertexID" \notin ID_SystemMethods
  THEN Result(st, None, AttributeError)
  ELSE IF ~VertexAssert(members)
  THEN Result(st, None, AssertionError)
  ELSE LET a == Len(st.heap) + 1
           h1 == Append(st.heap, Vertex(vertex_id, members))
           h2 == [x \in DOMAIN h1 |->
                    IF x \in members
                    THEN [h1[x] EXCEPT !.child_vertices = @ \cup {a}]
                    ELSE h1[x]]
       IN Result([st EXCEPT !.heap = h2,
                            !.connection_dict = Put(@, vertex_id, a)],
                 a, NoError)

addChildOp(st, parent_vertex, child) ==
  IF "addChild" \notin Methods(st.heap[parent_vertex])
  THEN Result(st, None, AttributeError)
  ELSE LET st1 == [st EXCEPT !.heap[parent_vertex].children = @ \cup {child}]
       IN IF "addParentVertex" \notin Methods(st1.heap[child])
          THEN Result(st1, None, AttributeError)
          ELSE Result([st1 EXCEPT !.heap[child].parent_vertex = parent_vertex],
                      None, NoError)

\* the for loop of addChildren over the children still to visit; the set is
\* iterated lowest address first (the order changes the outcome only in
\* which children were linked before an exception)
RECURSIVE addChildrenOp(_, _, _)
addChildrenOp(st, parent_body, children) ==
  IF children = {} THEN Result(st, None, NoError)
  ELSE LET child == CHOOSE c \in children : \A d \in children : c <= d
           r == addChildOp(st, parent_body, child)
       IN IF r.err # NoError THEN r
          ELSE addChildrenOp(r.st, parent_body, children \ {child})

\* ------------------------------------------------------------------ JSON
Digits == <<"0", "1", "2", "3", "4", "5", "6", "7", "8", "9">>

\* str(int), as json.dumps writes a dict's integer key
RECURSIVE IntToStr(_)
IntToStr(n) ==
  IF n < 10 THEN <<Digits[n + 1]>>
  ELSE Append(IntToStr(n \div 10), Digits[(n % 10) + 1])

DigitValue(ch) == (CHOOSE i \in DOMAIN Digits : Digits[i] = ch) - 1

\* int(key)
RECURSIVE StrToInt(_)
StrToInt(s) ==
  IF Len(s) = 1 THEN DigitValue(s[1])
  ELSE 10 * StrToInt(SubSeq(s, 1, Len(s) - 1)) + DigitValue(s[Len(s)])

\* the lists a comprehension over a Python set can produce: every order
Orders(S) ==
  {s \in [1..Cardinality(S) -> S] : \A i, j \in DOMAIN s : i # j => s[i] # s[j]}

\* every way of choosing one element from each set of a sequence of sets
RECURSIVE Choices(_)
Choices(sets) ==
  IF sets = <<>> THEN {<<>>}
  ELSE {<<x>> \o t : x \in Head(sets), t \in Choices(Tail(sets))}

IdsOf(h, addrs) == {h[a].id : a \in addrs}

\* the ids of a list of objects, [obj.getID() for obj in list]
IdList(h, lst) == [i \in DOMAIN lst |-> h[lst[i]].id]

RelationsRecord(type, child_vertices, parent_vertex, children, parents) ==
  [type |-> type, child_vertices |-> child_vertices, parent_vertex |-> parent_vertex,
   children |-> children, parents |-> parents]

\* LinkedPerson.getRelations / Vertex.getRelations: the dicts one call can return
getRelations(h, a) ==
  IF h[a].type = LINKED_PERSON
  THEN {RelationsRecord(LINKED_PERSON, IdList(h, vs),
                        IF h[a].parent_vertex # None
                        THEN h[h[a].parent_vertex].id ELSE None,
                        <<>>, <<>>) : vs \in Orders(h[a].child_vertices)}
  ELSE {RelationsRecord(VERTEX, <<>>, None, IdList(h, cs), IdList(h, ps)) :
          cs \in Orders(h[a].children), ps \in Orders(h[a].parents)}

\* the entries of a dict whose value has the given type, in dict order
RECURSIVE EntriesOfType(_, _, _)
EntriesOfType(h, d, type) ==
  IF d = <<>> THEN <<>>
  ELSE (IF h[Head(d).v].type = type THEN <<Head(d)>> ELSE <<>>)
       \o EntriesOfType(h, Tail(d), type)

\* the list write_family_info dumps
write_family_info(st) ==
  LET es == EntriesOfType(st.heap, st.connection_dict, LINKED_PERSON)
  IN [i \in DOMAIN es |-> asdict(st.heap[es[i].v].info[1])]

\* the objects writeFamilyConnections can dump: persons first, then vertices
writeFamilyConnections(st) ==
  LET es == EntriesOfType(st.heap, st.connection_dict, LINKED_PERSON)
            \o EntriesOfType(st.heap, st.connection_dict, VERTEX)
      recs == Choices([i \in DOMAIN es |-> getRelations(st.heap, es[i].v)])
  IN {[i \in DOMAIN es |-> [key |-> IntToStr(es[i].k), rec |-> r[i]]] : r \in recs}

\* the pairs of files save can leave on disk
save(st) ==
  {[info |-> write_family_info(st), rels |-> r] : r \in writeFamilyConnections(st)}

\* info_dict of import_from_jsons: person_id -> PersonInfo, later entries win
InfoIds(raw) == {infoFromDict(raw[i]).person_id : i \in DOMAIN raw}

InfoDict(raw, person_id) ==
  LET last == CHOOSE i \in DOMAIN raw :
                /\ infoFromDict(raw[i]).person_id = person_id
                /\ \A j \in DOMAIN raw :
                     infoFromDict(raw[j]).person_id = person_id => j <= i
  IN infoFromDict(raw[last])

\* the loop over member_ids skipping ids that are not registered, as the
\* comprehension over direct_children_ids does
RECURSIVE ResolveMembersSkipping(_, _, _)
ResolveMembersSkipping(st, member_ids, members) ==
  IF member_ids = <<>> THEN Result(st, members, NoError)
  ELSE LET m == getMember(st, Head(member_ids))
       IN IF m.err # NoError
          THEN ResolveMembersSkipping(st, Tail(member_ids), members)
          ELSE IF st.heap[m.ret].type # LINKED_PERSON
          THEN Result(st, {}, AssertionError)
          ELSE ResolveMembersSkipping(st, Tail(member_ids), members \cup {m.ret})

\* the loop over member_ids: the set of members, or the first exception
RECURSIVE ResolveMembers(_, _, _)
ResolveMembers(st, member_ids, members) ==
  IF member_ids = <<>> THEN Result(st, members, NoError)
  ELSE LET m == getMember(st, Head(member_ids))
       IN IF m.err # NoError THEN Result(st, {}, m.err)
          ELSE IF st.heap[m.ret].type # LINKED_PERSON
          THEN Result(st, {}, AssertionError)
          ELSE ResolveMembers(st, Tail(member_ids), members \cup {m.ret})

SeqRange(s) == {s[i] : i \in DOMAIN s}

\* the body of the loop of import_from_jsons for one item of rels_dict
ImportRecord(st, raw_info, key, rels_values) ==
  LET id_number == StrToInt(key)
  IN IF rels_values.type = LINKED_PERSON
     THEN IF id_number \notin InfoIds(raw_info)
          THEN Result(st, None, KeyError)
          ELSE LET p == addFamilyMemberOp(st, InfoDict(raw_info, id_number))
                   parent_unit_id == rels_values.parent_vertex
               IN IF parent_unit_id # None
                     /\ parent_unit_id \in Keys(p.st.connection_dict)
                  THEN LET parent_unit == getMember(p.st, parent_unit_id).ret
                       IN IF p.st.heap[parent_unit].type # VERTEX
                          THEN Result(p.st, None, AssertionError)
                          ELSE addChildOp(p.st, parent_unit, p.ret)
                  ELSE p
     ELSE IF rels_values.type = VERTEX
     THEN LET ms == ResolveMembers(st, rels_values.parents, {})
          IN IF ms.err # NoError THEN Result(st, None, ms.err)
             ELSE LET v == addVertexOp(st, ms.ret, id_number)
                  IN IF v.err # NoError THEN v
                     ELSE LET children ==
                                {getMember(v.st, id_num).ret :
                                   id_num \in SeqRange(rels_values.children)
                                              \cap Keys(v.st.connection_dict)}
                          IN addChildrenOp(v.st, v.ret, children)
     ELSE Result(st, None, ValueError)

RECURSIVE ImportRecords(_, _, _)
ImportRecords(st, raw_info, rels) ==
  IF rels = <<>> THEN Result(st, None, NoError)
  ELSE LET r == ImportRecord(st, raw_info, Head(rels).key, Head(rels).rec)
       IN IF r.err # NoError THEN r
          ELSE ImportRecords(r.st, raw_info, Tail(rels))

\* FamilyManager(import_filenames): a new manager filled from the two files
import_from_jsons(file) == ImportRecords(NewManager, file.info, file.rels)

\* ------------------------------------------------------------- traversal
\* iterate_and_print mutates already_found; a Python set is iterated in an
\* unspecified order, so a call has a set of possible final already_found.
RECURSIVE iterate_and_print(_, _, _), IterateList(_, _, _)
IterateSet(h, found, S) ==
  UNION {IterateList(h, found, s) : s \in Orders(S)}

IterateList(h, found, lst) ==
  IF lst = <<>> THEN {found}
  ELSE IF h[Head(lst)].id \in found
  THEN IterateList(h, found, Tail(lst))
  ELSE UNION {IterateList(h, f, Tail(lst)) :
                f \in iterate_and_print(h, found, Head(lst))}

iterate_and_print(h, already_found, connection) ==
  LET found == already_found \cup {h[connection].id}
  IN IF h[connection].type = VERTEX
     THEN UNION {IterateSet(h, f, h[connection].children) :
                   f \in IterateSet(h, found, h[connection].parents)}
     ELSE UNION {IF h[connection].parent_vertex # None
                    /\ h[h[connection].parent_vertex].id \notin f
                 THEN iterate_and_print(h, f, h[connection].parent_vertex)
                 ELSE {f} :
                   f \in IterateSet(h, found, h[connection].child_vertices)}

\* ---------------------------------------------------------------- inputs
\* the people test_write_to_file creates
PersonInputs ==
  {[first_name |-> "Tom", last_name |-> "Jones",
    birth |-> <<EventDate(1950, 4, 12)>>, death |-> <<EventDate(2015, 3, 16)>>],
   [first_name |-> "Linda", last_name |-> "Adams",
    birth |-> <<EventDate(1950, 4, 12)>>, death |-> <<>>]}

\* ids a caller passes to addFamilyMember (inside a PersonInfo) and to addVertex
SuppliedPersonIDs == {1, 3}
SuppliedVertexIDs == {2, 4}

\* the nodes of the graph: the objects connection_dict holds.  A caller gets
\* the nodes it passes to the manager from the manager (getMember, or the
\* value a creation returned while it is still registered).
Nodes == {connection_dict[i].v : i \in DOMAIN connection_dict}
Persons == {a \in Nodes : heap[a].type = LINKED_PERSON}
Vertices == {a \in Nodes : heap[a].type = VERTEX}

\* a sequence without its i-th element
DropAt(s, i) == SubSeq(s, 1, i - 1) \o SubSeq(s, i + 1, Len(s))

\* a sequence with its i-th element moved to the front
MoveToFront(s, i) == <<s[i]>> \o DropAt(s, i)

\* the files a manager may be constructed from: the pair on disk, or that pair
\* edited outside the program (an info entry or a relationship record removed,
\* a relationship record moved to the front of the object)
FileInputs(file) ==
  {file}
  \cup {[file EXCEPT !.info = DropAt(@, i)] : i \in DOMAIN file.info}
  \cup {[file EXCEPT !.rels = DropAt(@, i)] : i \in DOMAIN file.rels}
  \cup {[file EXCEPT !.rels = MoveToFront(@, i)] : i \in DOMAIN file.rels}

\* ----------------------------------------------------------- call records
\* the last call made: its name, arguments, return value and exception
Call(op) ==
  [op |-> op, err |-> NoError, ret |-> None, id |-> None, n |-> 0,
   p |-> None, c |-> None, file |-> <<>>, found |-> {}]

SetManager(st) ==
  /\ heap' = st.heap
  /\ connection_dict' = st.connection_dict
  /\ root' = st.root
  /\ last_person_id' = st.last_person_id
  /\ last_couple_id' = st.last_couple_id

\* position in the example of the testable properties, played on a fresh graph:
\* create A, create B, createPairing({A, B}), create C, addChild(pairing, C);
\* Off once the calls made differ from it
Off == 0 - 1

ExampleNext(step, matches) == IF exStep = step - 1 /\ matches THEN step ELSE Off

\* ---------------------------------------------------------------- actions
InitWith(bound) ==
  /\ heap = NewManager.heap
  /\ connection_dict = NewManager.connection_dict
  /\ root = NewManager.root
  /\ last_person_id = NewManager.last_person_id
  /\ last_couple_id = NewManager.last_couple_id
  /\ disk = <<>>
  /\ alive = TRUE
  /\ lastCall = Call("__init__")
  /\ issued = <<>>
  /\ loadedIds = {}
  /\ exStep = 0
  /\ capacity = bound

Init == InitWith(MaxObjs)

\* FamilyManager()
New ==
  /\ SetManager(NewManager)
  /\ alive' = TRUE
  /\ lastCall' = Call("__init__")
  /\ issued' = <<>>
  /\ loadedIds' = {}
  /\ exStep' = 0
  /\ UNCHANGED <<disk, capacity>>

\* FamilyManager(import_filenames): an exception leaves no manager to call
Load ==
  /\ disk # <<>>
  /\ \E file \in FileInputs(disk[1]) :
       LET r == import_from_jsons(file)
       IN /\ SetManager(r.st)
          /\ alive' = (r.err = NoError)
          /\ lastCall' = [Call("load") EXCEPT !.err = r.err, !.file = <<file>>]
          /\ loadedIds' = Keys(r.st.connection_dict)
  /\ issued' = <<>>
  /\ exStep' = Off
  /\ UNCHANGED <<disk, capacity>>

createFamilyMember ==
  /\ alive
  /\ Len(heap) < capacity
  /\ \E i \in PersonInputs :
       LET r == createFamilyMemberOp(Manager, i.first_name, i.last_name,
                                     i.birth, i.death)
       IN /\ SetManager(r.st)
          /\ lastCall' = [Call("createFamilyMember") EXCEPT
                            !.ret = r.ret, !.id = r.st.heap[r.ret].id]
          /\ issued' = Append(issued, r.st.heap[r.ret].id)
  /\ exStep' = IF exStep \in {0, 1} THEN exStep + 1 ELSE ExampleNext(4, TRUE)
  /\ UNCHANGED <<disk, alive, loadedIds, capacity>>

addFamilyMember ==
  /\ alive
  /\ Len(heap) < capacity
  /\ \E i \in PersonInputs, person_id \in SuppliedPersonIDs :
       LET r == addFamilyMemberOp(Manager,
                  PersonInfo(person_id, i.first_name, i.last_name, i.birth, i.death))
       IN /\ SetManager(r.st)
          /\ lastCall' = [Call("addFamilyMember") EXCEPT
                            !.err = r.err, !.ret = r.ret, !.id = person_id]
  /\ exStep' = Off
  /\ UNCHANGED <<disk, alive, issued, loadedIds, capacity>>

addVertex ==
  /\ alive
  /\ Len(heap) < capacity
  /\ \E members \in SUBSET Persons, vertex_id \in {None} \cup SuppliedVertexIDs :
       LET r == addVertexOp(Manager, members, vertex_id)
       IN /\ SetManager(r.st)
          /\ lastCall' = [Call("addVertex") EXCEPT
                            !.err = r.err, !.ret = r.ret, !.id = vertex_id,
                            !.n = Cardinality(members)]
          /\ exStep' = ExampleNext(3, members = {1, 2} /\ vertex_id = None)
  /\ UNCHANGED <<disk, alive, issued, loadedIds, capacity>>

addChild ==
  /\ alive
  /\ \E parent_vertex \in Vertices, child \in Persons :
       LET r == addChildOp(Manager, parent_vertex, child)
       IN /\ SetManager(r.st)
          /\ lastCall' = [Call("addChild") EXCEPT
                            !.err = r.err, !.p = parent_vertex, !.c = child]
          /\ exStep' = ExampleNext(5, /\ heap[parent_vertex].type = VERTEX
                                      /\ heap[parent_vertex].parents = {1, 2}
                                      /\ child = Len(heap))
  /\ UNCHANGED <<disk, alive, issued, loadedIds, capacity>>

addChildren ==
  /\ alive
  /\ \E parent_body \in Vertices, children \in SUBSET Persons :
       LET r == addChildrenOp(Manager, parent_body, children)
       IN /\ SetManager(r.st)
          /\ lastCall' = [Call("addChildren") EXCEPT
                            !.err = r.err, !.p = parent_body,
                            !.n = Cardinality(children)]
  /\ exStep' = Off
  /\ UNCHANGED <<disk, alive, issued, loadedIds, capacity>>

Save ==
  /\ alive
  /\ \E file \in save(Manager) : disk' = <<file>>
  /\ lastCall' = Call("save")
  /\ exStep' = Off
  /\ UNCHANGED <<heap, connection_dict, root, last_person_id, last_couple_id,
                 alive, issued, loadedIds, capacity>>

\* iterate_and_print(set(), node), from a node of the graph
Iterate ==
  /\ alive
  /\ \E connection \in Nodes :
       \E found \in iterate_and_print(heap, {}, connection) :
         lastCall' = [Call("iterate_and_print") EXCEPT
                        !.p = connection, !.found = found]
  /\ exStep' = Off
  /\ UNCHANGED <<heap, connection_dict, root, last_person_id, last_couple_id,
                 disk, alive, issued, loadedIds, capacity>>

\* the graph's mutation API, called in any order on a fresh manager
Next ==
  \/ New
  \/ createFamilyMember
  \/ addFamilyMember
  \/ addVertex
  \/ addChild
  \/ addChildren

Spec == Init /\ [][Next]_vars

\* the identifier allocator: creations of people and of pairings interleaved
InitAlloc == InitWith(MaxAllocObjs)

NextAlloc ==
  \/ New
  \/ createFamilyMember
  \/ addVertex

SpecAlloc == InitAlloc /\ [][NextAlloc]_vars

\* traversal of the graphs the mutation API builds
InitTraverse == InitWith(MaxTraverseObjs)

NextTraverse ==
  \/ createFamilyMember
  \/ addFamilyMember
  \/ addVertex
  \/ Iterate

SpecTraverse == InitTraverse /\ [][NextTraverse]_vars

\* building a graph, saving it, constructing a manager from the files
NextFiles ==
  \/ createFamilyMember
  \/ addVertex
  \/ addChild
  \/ Save
  \/ Load

InitFiles == InitWith(MaxFileObjs)

SpecFiles == InitFiles /\ [][NextFiles]_vars

\* people and pairings saved, then a manager constructed from edited files
InitImport == InitWith(MaxImportObjs)

NextImport ==
  \/ createFamilyMember
  \/ addVertex
  \/ Save
  \/ Load

SpecImport == InitImport /\ [][NextImport]_vars

\* ================================================================ claims
\* the error kinds of the specification, as the exceptions the code raises:
\* NotFound is whatever lookup of an unregistered id raises
NotFound == getMember(NewManager, 1).err
InvalidCardinality == AssertionError
DuplicateID == "DuplicateID"

Registered(id) == id \in Keys(connection_dict)
NodeOf(id) == heap[Lookup(connection_dict, id)]

\* ---- C1: on a fresh graph the k-th PersonID issued by createFamilyMember is
\* 2k-1 (1 first, then the previous one plus 2, always odd), whatever
\* createPairing calls are made in between.
C1_PersonIDs ==
  \A k \in DOMAIN issued :
    /\ issued[k] = 2 * k - 1
    /\ issued[k] % 2 = 1
    /\ k > 1 => issued[k] = issued[k - 1] + 2

\* two people created with a pairing registered between them
C1_Witness ==
  /\ Len(issued) >= 2
  /\ lastCall.op = "createFamilyMember"
  /\ \E a \in Vertices : a < lastCall.ret

\* ---- C2: createPairing (addVertex called without an id) returns a
\* registered Pairing whose id is even, 2 for the first one.
C2_PairingIDs ==
  (lastCall.op = "addVertex" /\ lastCall.id = None /\ lastCall.n = 2) =>
    /\ lastCall.err = NoError
    /\ lastCall.ret \in Vertices
    /\ heap[lastCall.ret].id % 2 = 0
    /\ Registered(heap[lastCall.ret].id)
    /\ Lookup(connection_dict, heap[lastCall.ret].id) = lastCall.ret
    /\ (Cardinality(Vertices) = 1 => heap[lastCall.ret].id = 2)

\* ---- C3: createPairing with a member set of size other than 2 fails and
\* registers no Pairing.
C3_InvalidCardinality ==
  (lastCall.op = "addVertex" /\ lastCall.n # 2) =>
    /\ lastCall.err # NoError
    /\ lastCall.ret = None

\* ---- C6: addFamilyMember with an id that is already registered fails and
\* leaves the id-to-node map as it was.
C6_DuplicateID ==
  [][(lastCall'.op = "addFamilyMember" /\ lastCall'.id \in Keys(connection_dict))
       => (lastCall'.err # NoError /\ connection_dict' = connection_dict)]_vars

\* ---- C9: the example on a fresh graph: A and B get ids 1 and 3, the pairing
\* of A and B is registered under 2, C gets 5, and after addChild(pairing, C)
\* C's parent is 2 and the pairing's children are {5}.
C9_Example ==
  /\ exStep >= 1 => heap[1].id = 1
  /\ exStep >= 2 => heap[2].id = 3
  /\ exStep >= 3 => /\ Registered(2)
                    /\ NodeOf(2).type = VERTEX
                    /\ NodeOf(2).parents = {1, 2}
  /\ exStep >= 4 => Registered(5) /\ NodeOf(5).type = LINKED_PERSON
  /\ exStep = 5 => /\ NodeOf(5).parent_vertex # None
                   /\ heap[NodeOf(5).parent_vertex].id = 2
                   /\ IdsOf(heap, NodeOf(2).children) = {5}

\* ---- C10: every Individual of the graph is in the children set of at most
\* one node of the graph, and that node is the one its parent field names.
C10_SingleParent ==
  \A c \in Persons :
    /\ Cardinality({v \in Nodes : c \in heap[v].children}) <= 1
    /\ \A v \in Nodes : c \in heap[v].children => heap[c].parent_vertex = v

\* ---- C8: iterate_and_print from a node ends with a set that holds the
\* node's id, and run again from the node registered under any id of that set
\* it never finds an id outside the set.  Stated for the graphs in which every
\* Pairing ever created is still registered.
C8_Traversal ==
  (/\ lastCall.op = "iterate_and_print"
   /\ \A a \in DOMAIN heap : heap[a].type = VERTEX => a \in Nodes) =>
    /\ heap[lastCall.p].id \in lastCall.found
    /\ \A m \in lastCall.found :
         \A again \in iterate_and_print(heap, {}, getMember(Manager, m).ret) :
           again \subseteq lastCall.found

\* ---- C4: for every graph built by createFamilyMember, addVertex and
\* addChild, every pair of files save can write loads without error into a
\* graph with the same node ids, the same PersonInfo per Individual, the same
\* members per Pairing and the same parent and child links.  Stated for the
\* graphs in which every object created is still registered.
NodeView(st, a) ==
  [type |-> st.heap[a].type,
   info |-> st.heap[a].info,
   parent |-> IF st.heap[a].parent_vertex = None THEN None
              ELSE st.heap[st.heap[a].parent_vertex].id,
   pairings |-> IdsOf(st.heap, st.heap[a].child_vertices),
   children |-> IdsOf(st.heap, st.heap[a].children),
   members |-> IdsOf(st.heap, st.heap[a].parents)]

GraphView(st) ==
  [id \in Keys(st.connection_dict) |-> NodeView(st, Lookup(st.connection_dict, id))]

C4_RoundTrip ==
  (alive /\ Nodes = DOMAIN heap) =>
    \A file \in save(Manager) :
      /\ import_from_jsons(file).err = NoError
      /\ GraphView(import_from_jsons(file).st) = GraphView(Manager)

\* ---- C5: after a load that registered nodes, an id issued by
\* createFamilyMember is none of the ids the load registered.
C5_NoReissue ==
  (lastCall.op = "createFamilyMember" /\ loadedIds # {}) =>
    lastCall.id \notin loadedIds

\* ---- C7: constructing a manager from files whose relationships hold a
\* Pairing record with a member id that is not registered when the record is
\* read (no earlier record has that key, or the info file lacks the id) fails
\* with the error kind lookup raises, and registers no node for that record.
KeyAt(file, i) == StrToInt(file.rels[i].key)

Unregistered(file, i, m) ==
  \/ \A j \in 1..(i - 1) : KeyAt(file, j) # m
  \/ m \notin InfoIds(file.info)

DanglingRecords(file) ==
  {i \in DOMAIN file.rels :
     /\ file.rels[i].rec.type = VERTEX
     /\ \E m \in SeqRange(file.rels[i].rec.parents) : Unregistered(file, i, m)}

C7_LoadNotFound ==
  (lastCall.op = "load" /\ DanglingRecords(lastCall.file[1]) # {}) =>
    /\ lastCall.err = NotFound
    /\ ~alive
    /\ \A i \in DanglingRecords(lastCall.file[1]) :
         ~Registered(KeyAt(lastCall.file[1], i))

\* a load that met a Pairing record naming a member that the info file
\* describes and no relationship record registers
C7_Witness ==
  /\ lastCall.op = "load"
  /\ lastCall.err = NotFound
  /\ \E i \in DanglingRecords(lastCall.file[1]) :
       \E m \in SeqRange(lastCall.file[1].rels[i].rec.parents) :
         /\ m \in InfoIds(lastCall.file[1].info)
         /\ \A j \in DOMAIN lastCall.file[1].rels : KeyAt(lastCall.file[1], j) # m

====
